---- MODULE Spec2Model ----
(***************************************************************************)
(* MP3 Reduce Tool v0.3.0 (mp3_reduce_tool/python/reduce-v0.3.0.py).       *)
(*                                                                         *)
(* One run of main(): tool detection, the preview (eligibility) loop, the  *)
(* reduction gate, the parallel reduction (process pool, as_completed      *)
(* loop, spinner thread), the deletion gate, the safe-delete loop and the  *)
(* CSV export.  The file system is part of the state.                      *)
(*                                                                         *)
(* A file name is a sequence of tokens, <<"a", "_reduced", ".mp3">> for    *)
(* a_reduced.mp3; only the tokens that start with a dot contain one.       *)
(* Times are seconds, sizes bytes.  A duration (seconds) and               *)
(* savings_percent are kept as exact fractions num/den; floating-point     *)
(* rounding is not modelled.                                               *)
(***************************************************************************)
EXTENDS Integers, Sequences, FiniteSets, TLC

VARIABLES
    which,              \* shutil.which: is ffmpeg / ffprobe on the PATH
    fs,                 \* the scanned directory: name -> file
    pc,                 \* main()'s position
    choice,             \* the reduction gate's answer, "" before it
    delete_choice,      \* the deletion gate's answer, "" before it
    args,               \* argparse / prompt results: auto, nocsv, minutes
    cutoff,             \* [set |-> BOOLEAN, t |-> Int]; set = FALSE is None
    listing,            \* the paths music_dir.rglob("*.mp3") returns
    todo,               \* those the preview loop has not reached yet
    csv_rows,           \* the report rows, in order
    log,                \* the log file's lines, in order
    reducible_files,    \* the reduction tasks, in order
    file_info,          \* str(mp3) -> precomputed eligibility data
    futures,            \* one per submitted task: pending | done | raised
    reduction_results,  \* results in collection order
    counter,            \* counter["count"]
    stop_event,         \* threading.Event
    spinner_thread,     \* "none" | "running" | "exited"
    del_i,              \* deletion loop index
    csv_file,           \* the CSV files written, each the rows it holds
    encoded,            \* per source, the exit codes of its encoder runs
    history             \* per earlier run, the sources it left reduced

vars == <<which, choice, delete_choice, fs, pc, args, cutoff, listing, todo,
          csv_rows, log, reducible_files, file_info, futures,
          reduction_results, counter, stop_event, spinner_thread, del_i,
          csv_file, encoded, history>>

----------------------------------------------------------------------------
(* Bounds and program constants *)

MaxFiles == 2

TARGET_BITRATE == 128000

MIN_SAVINGS_PERCENT == 20

\* time.time() when the cutoff is computed
Now == 100000

\* the moment the encoder writes its output
EncodeTime == Now + 10

----------------------------------------------------------------------------
(* pathlib on token sequences *)

IsDotTok(tok) == tok \in {".mp3", ".MP3"}

Lower(tok) ==
    CASE tok = "_REDUCED" -> "_reduced"
      [] tok = ".MP3" -> ".mp3"
      [] OTHER -> tok

LowerName(n) == [i \in 1..Len(n) |-> Lower(n[i])]

\* position of the last dot of the name, 0 if none
LastDot(n) ==
    IF \E i \in 1..Len(n) : IsDotTok(n[i])
    THEN CHOOSE i \in 1..Len(n) :
            /\ IsDotTok(n[i])
            /\ \A j \in 1..Len(n) : IsDotTok(n[j]) => j <= i
    ELSE 0

\* PurePath.suffix: empty when the last dot is the name's first character
Suffix(n) == IF LastDot(n) > 1 THEN SubSeq(n, LastDot(n), Len(n)) ELSE <<>>

Stem(n) == IF LastDot(n) > 1 THEN SubSeq(n, 1, LastDot(n) - 1) ELSE n

\* src.with_name(src.stem + "_reduced.mp3")
DerivedPath(n) == Stem(n) \o <<"_reduced", ".mp3">>

Exists(f, n) == n \in DOMAIN f /\ ~f[n].dangling

reduced_exists(f, path) ==
    IF LowerName(Suffix(path)) # <<".mp3">>
    THEN FALSE
    ELSE Exists(f, DerivedPath(path))

HasMarkerCaseSensitive(n) == \E i \in 1..Len(n) : n[i] = "_reduced"

\* "_reduced" in mp3.name.lower()
HasMarker(n) == \E i \in 1..Len(n) : LowerName(n)[i] = "_reduced"

----------------------------------------------------------------------------
(* Tagged cell values of rows and log lines *)

Blank == [t |-> "", v |-> 0]

SkipStr == [t |-> "skip", v |-> 0]

Num(n) == [t |-> "num", v |-> n]

\* int(): truncation toward zero of a/b, b > 0
IntTrunc(a, b) == IF a >= 0 THEN a \div b ELSE -((-a) \div b)

\* f"{x:.2f}" of the fraction p >= 0, as hundredths, rounded to nearest
\* (exact ties do not occur in the values drawn here)
Fmt2(p) ==
    [t |-> "pct",
     v |-> (p.num \div p.den) * 100
           + (2 * 100 * (p.num % p.den) + p.den) \div (2 * p.den)]

----------------------------------------------------------------------------
(* ffprobe *)

Zero == [num |-> 0, den |-> 1]

\* a JSON field: missing, present but not a number ("N/A"), or a number
Absent == [t |-> "absent", v |-> 0]

NA == [t |-> "na", v |-> 0]

DAbsent == [t |-> "absent", v |-> Zero]

DNA == [t |-> "na", v |-> Zero]

Dur(n, d) == [t |-> "num", v |-> [num |-> n, den |-> d]]

NoInfo == [ok |-> FALSE, bitrate |-> 0, duration |-> Zero, size |-> 0]

\* what running ffprobe on a file gives: its exit code rc and what it
\* prints (nothing, something that is not JSON, or a JSON document with an
\* optional bit_rate and an optional duration), or no process at all
OutEmpty ==
    [k |-> "empty", rc |-> 0, bit_rate |-> Absent, duration |-> Absent]

OutGarbage ==
    [k |-> "garbage", rc |-> 0, bit_rate |-> Absent, duration |-> Absent]

OutJson(b, d) == [k |-> "json", rc |-> 0, bit_rate |-> b, duration |-> d]

\* subprocess.run raises: the probe cannot be launched
OutNoLaunch ==
    [k |-> "nolaunch", rc |-> 0, bit_rate |-> Absent, duration |-> Absent]

\* the same output from a process that exits with code rc
Exit(rc, out) == [out EXCEPT !.rc = rc]

ffprobe_audio_info(f, path) ==
    IF path \notin DOMAIN f THEN NoInfo
    ELSE LET out == f[path].out IN
         IF f[path].dangling THEN NoInfo          \* nothing printed
         ELSE IF out.k = "nolaunch" THEN NoInfo   \* caught by except
         ELSE IF out.k = "empty" THEN NoInfo
         ELSE IF out.k = "garbage" THEN NoInfo    \* json.loads raises
         ELSE IF out.bit_rate.t = "na" \/ out.duration.t = "na"
              THEN NoInfo                         \* int() / float() raises
         ELSE IF out.bit_rate.t = "absent" \/ out.duration.t = "absent"
              THEN NoInfo
         ELSE [ok |-> TRUE, bitrate |-> out.bit_rate.v,
               duration |-> out.duration.v, size |-> f[path].size]

----------------------------------------------------------------------------
(* The preview loop's body for one file *)

SkipRow(name, bitrate, size, reason) ==
    [filename |-> name, bitrate |-> bitrate, size_bytes |-> size,
     estimated_size_bytes |-> SkipStr, savings_bytes |-> SkipStr,
     savings_percent |-> SkipStr, action |-> "SKIP", skip_reason |-> reason]

Reason(text) == [text |-> text, pct |-> Blank]

NoItem == [path |-> <<>>, bitrate |-> 0, duration |-> Zero, size |-> 0,
           estimated_size |-> 0, savings_bytes |-> 0,
           savings_percent |-> [num |-> 0, den |-> 1]]

Skipped(name, bitrate, size, reason) ==
    [raised |-> FALSE, pass |-> FALSE,
     row |-> SkipRow(name, bitrate, size, reason),
     line |-> [tag |-> "SKIP", reason |-> reason, file |-> name,
               success |-> FALSE],
     item |-> NoItem]

Raised == [raised |-> TRUE, pass |-> FALSE,
           row |-> SkipRow(<<>>, Blank, Blank, Reason("")),
           line |-> [tag |-> "", reason |-> Reason(""), file |-> <<>>,
                     success |-> FALSE],
           item |-> NoItem]

estimated_size_of_bits(duration) ==
    IntTrunc(TARGET_BITRATE * duration.num, duration.den)

\* int((TARGET_BITRATE * duration) / 8)
estimated_size_of(duration) ==
    IntTrunc(TARGET_BITRATE * duration.num, 8 * duration.den)

savings_percent_of_estimate(savings_bytes, size) ==
    [num |-> savings_bytes * 100, den |-> size - savings_bytes]

\* (savings_bytes / size) * 100
savings_percent_of(savings_bytes, size) ==
    [num |-> savings_bytes * 100, den |-> size]

BelowThresholdHalved(pct) == 2 * pct.num < MIN_SAVINGS_PERCENT * pct.den

\* savings_percent < MIN_SAVINGS_PERCENT
BelowThreshold(pct) == pct.num < MIN_SAVINGS_PERCENT * pct.den

AtOrBelowTarget(bitrate) == bitrate <= TARGET_BITRATE

WouldNotShrinkStrict(savings_bytes) == savings_bytes < 0

\* savings_bytes <= 0
WouldNotShrink(savings_bytes) == savings_bytes <= 0

OutsideWindowInclusive(cut, mtime) == cut.set /\ mtime <= cut.t

\* cutoff is not None and mp3.stat().st_mtime < cutoff
OutsideWindow(cut, mtime) == cut.set /\ mtime < cut.t

Preview(f, cut, mp3) ==
    IF reduced_exists(f, mp3)
    THEN Skipped(mp3, Blank, Blank, Reason("_reduced version exists"))
    ELSE IF cut.set /\ f[mp3].dangling
    THEN Raised                                   \* mp3.stat() raises
    ELSE IF OutsideWindow(cut, f[mp3].mtime)
    THEN Skipped(mp3, Blank, Blank, Reason("outside time window"))
    ELSE IF HasMarker(mp3)
    THEN Skipped(mp3, Blank, Blank, Reason("already reduced"))
    ELSE LET info == ffprobe_audio_info(f, mp3) IN
    IF ~info.ok
    THEN Skipped(mp3, Blank, Blank, Reason("no metadata"))
    ELSE IF AtOrBelowTarget(info.bitrate)
    THEN Skipped(mp3, Num(info.bitrate), Num(info.size),
                 Reason("already 128 kbps or lower"))
    ELSE LET estimated_size == estimated_size_of(info.duration)
             savings_bytes == info.size - estimated_size
         IN
    IF WouldNotShrink(savings_bytes)
    THEN Skipped(mp3, Num(info.bitrate), Num(info.size),
                 Reason("would not shrink"))
    ELSE IF info.size = 0
    THEN Raised                                   \* ZeroDivisionError
    ELSE LET pct == savings_percent_of(savings_bytes, info.size) IN
    IF BelowThreshold(pct)
    THEN Skipped(mp3, Num(info.bitrate), Num(info.size),
                 [text |-> "below threshold", pct |-> Fmt2(pct)])
    ELSE [raised |-> FALSE, pass |-> TRUE,
          row |-> [filename |-> mp3, bitrate |-> Num(info.bitrate),
                   size_bytes |-> Num(info.size),
                   estimated_size_bytes |-> Num(estimated_size),
                   savings_bytes |-> Num(savings_bytes),
                   savings_percent |-> Fmt2(pct),
                   action |-> "PASS", skip_reason |-> Reason("")],
          line |-> [tag |-> "PASS", reason |-> [text |-> "reducible",
                                                pct |-> Fmt2(pct)],
                    file |-> mp3, success |-> FALSE],
          item |-> [path |-> mp3, bitrate |-> info.bitrate,
                    duration |-> info.duration, size |-> info.size,
                    estimated_size |-> estimated_size,
                    savings_bytes |-> savings_bytes,
                    savings_percent |-> pct]]

----------------------------------------------------------------------------
(* The directory before the run *)

OldTime == Now - 61

AtCutoffTime == Now - 60

File(size, mtime, out) ==
    [dangling |-> FALSE, size |-> size, mtime |-> mtime, out |-> out]

\* a symbolic link whose target is gone: listed, but stat() raises and
\* exists() is false
Dangling == [dangling |-> TRUE, size |-> 0, mtime |-> 0, out |-> OutEmpty]

Good320 == OutJson(Num(320000), Dur(1, 1))

Above(d) == OutJson(Num(TARGET_BITRATE + 1), d)

\* above the target bitrate, 1 s, 40000 bytes: 60% savings
Reducible(mtime) == File(40000, mtime, Good320)

\* files whose classification turns on the probe result and the numbers
ProbeKinds ==
    { File(19999, AtCutoffTime, Above(Dur(1, 1))),
      File(16000, AtCutoffTime, Above(Dur(1, 1))),
      File(10667, AtCutoffTime, Above(Dur(2, 3))),
      File(0, AtCutoffTime, Above(Dur(1, 1))),
      File(40000, OldTime, OutJson(Num(TARGET_BITRATE), Dur(1, 1))),
      File(40000, AtCutoffTime, OutEmpty),
      File(40000, AtCutoffTime, OutJson(Absent, Dur(1, 1))) }

DirNames ==
    { <<"a", ".mp3">>, <<"a", "_reduced", ".mp3">>,
      <<".mp3">>, <<".mp3", "_reduced", ".mp3">>,
      <<"c", "_REDUCED", ".mp3">> }

\* the files a name may stand for before the run
KindsOf(name) ==
    CASE name = <<"a", ".mp3">> ->
            {Reducible(AtCutoffTime),
             File(20000, EncodeTime, Above(Dur(1, 1))), Dangling}
            \cup ProbeKinds
      [] name = <<".mp3">> ->
            {Reducible(AtCutoffTime),
             File(40000, AtCutoffTime, OutEmpty)}
      [] name = <<"a", "_reduced", ".mp3">> ->
            {Reducible(AtCutoffTime), Reducible(OldTime), Dangling}
      [] name = <<"c", "_REDUCED", ".mp3">> ->
            {Reducible(AtCutoffTime)}
      [] OTHER ->
            {Reducible(AtCutoffTime)}

Directories ==
    UNION { { f \in [names -> UNION {KindsOf(n) : n \in names}] :
                \A n \in names : f[n] \in KindsOf(n) } :
            names \in { s \in SUBSET DirNames : Cardinality(s) <= MaxFiles } }

\* --minutes: a window of one minute, no window, a negative number
Minutes == {-1, 0, 1}

NoCutoff == [set |-> FALSE, t |-> 0]

\* what shutil.which may find
Paths == [ffmpeg : BOOLEAN, ffprobe : BOOLEAN]

\* main() has not started
Start ==
    /\ which \in Paths
    /\ pc = "start"
    /\ choice = ""
    /\ delete_choice = ""
    /\ args = [auto |-> FALSE, nocsv |-> FALSE, minutes |-> 0]
    /\ cutoff = NoCutoff
    /\ listing = {}
    /\ todo = {}
    /\ csv_rows = <<>>
    /\ log = <<>>
    /\ reducible_files = <<>>
    /\ file_info = <<>>
    /\ futures = <<>>
    /\ reduction_results = <<>>
    /\ counter = 0
    /\ stop_event = FALSE
    /\ spinner_thread = "none"
    /\ del_i = 0
    /\ csv_file = <<>>
    /\ encoded = <<>>
    /\ history = <<>>

Init == fs \in Directories /\ Start

----------------------------------------------------------------------------
(* main(): setup and the preview loop *)

detect_ffmpeg_only(w) == w.ffmpeg

\* detect_ffmpeg_windows_only(): TRUE when it returns, FALSE when it
\* raises RuntimeError
detect_ffmpeg_windows_only(w) == w.ffmpeg /\ w.ffprobe

\* the call of detect_ffmpeg_windows_only() and the RuntimeError handler
DetectTools ==
    /\ pc = "start"
    /\ pc' = IF detect_ffmpeg_windows_only(which) THEN "args" ELSE "exit"
    /\ UNCHANGED <<which, choice, delete_choice, fs, args, cutoff, listing,
                   todo, csv_rows, log, reducible_files, file_info, futures,
                   reduction_results, counter, stop_event, spinner_thread,
                   del_i, csv_file, encoded, history>>

\* music_dir.rglob("*.mp3"): every entry whose name ends in .mp3
rglob(f) == { n \in DOMAIN f : Len(n) > 0 /\ Lower(n[Len(n)]) = ".mp3" }

\* argument parsing, directory and minutes selection, the cutoff
Configure ==
    /\ pc = "args"
    /\ \E auto \in BOOLEAN, nocsv \in BOOLEAN, minutes \in Minutes,
          dir_exists \in BOOLEAN :
          IF ~dir_exists
          THEN /\ pc' = "exit"
               /\ UNCHANGED <<args, cutoff, listing, todo>>
          ELSE /\ args' = [auto |-> auto, nocsv |-> nocsv,
                           minutes |-> minutes]
               /\ cutoff' = IF minutes > 0
                            THEN [set |-> TRUE, t |-> Now - minutes * 60]
                            ELSE NoCutoff
               /\ listing' = rglob(fs)
               /\ todo' = rglob(fs)
               /\ pc' = "scan"
    /\ UNCHANGED <<which, choice, delete_choice, fs, csv_rows, log,
                   reducible_files, file_info, futures, reduction_results,
                   counter, stop_event, spinner_thread, del_i, csv_file,
                   encoded, history>>

InfoOf(item) ==
    [bitrate |-> item.bitrate, size |-> item.size,
     estimated_size |-> item.estimated_size,
     savings_bytes |-> item.savings_bytes,
     savings_percent |-> item.savings_percent]

\* file_info[key] = value
Put(map, key, value) ==
    [k \in DOMAIN map \cup {key} |-> IF k = key THEN value ELSE map[k]]

\* one iteration of "for mp3 in music_dir.rglob(...)"
ScanStep ==
    /\ pc = "scan"
    /\ \E mp3 \in todo :
          LET r == Preview(fs, cutoff, mp3) IN
          IF r.raised
          THEN /\ pc' = "crashed"
               /\ UNCHANGED <<todo, csv_rows, log, reducible_files,
                              file_info>>
          ELSE /\ pc' = "scan"
               /\ todo' = todo \ {mp3}
               /\ csv_rows' = Append(csv_rows, r.row)
               /\ log' = Append(log, r.line)
               /\ reducible_files' = IF r.pass
                                     THEN Append(reducible_files, r.item)
                                     ELSE reducible_files
               /\ file_info' = IF r.pass
                               THEN Put(file_info, mp3, InfoOf(r.item))
                               ELSE file_info
    /\ UNCHANGED <<which, choice, delete_choice, fs, args, cutoff, listing,
                   futures, reduction_results, counter, stop_event,
                   spinner_thread, del_i, csv_file, encoded, history>>

Line(tag, text, cell, file, success) ==
    [tag |-> tag, reason |-> [text |-> text, pct |-> cell], file |-> file,
     success |-> success]

\* "if not rows: return", else the file is (over)written with the rows
write_csv(files, rows) == IF rows = <<>> THEN files ELSE Append(files, rows)

\* the CSV export decision and the export; the same code ends each of the
\* three paths (nothing to reduce, reduction declined, run completed)
ExportCsv ==
    /\ pc = "export"
    /\ \E answer \in {"", "n"} :
          LET export_csv == IF args.nocsv THEN FALSE
                            ELSE IF args.auto THEN TRUE
                            ELSE answer # "n"
          IN csv_file' = IF export_csv
                         THEN write_csv(csv_file, csv_rows)
                         ELSE csv_file
    /\ pc' = "exit"
    /\ UNCHANGED <<which, choice, delete_choice, fs, args, cutoff, listing,
                   todo, csv_rows, log, reducible_files, file_info, futures,
                   reduction_results, counter, stop_event, spinner_thread,
                   del_i, encoded, history>>

\* after the loop: the summary and "if not reducible_files"
ScanEnd ==
    /\ pc = "scan"
    /\ todo = {}
    /\ IF reducible_files = <<>>
       THEN /\ log' = Append(log, Line("SUMMARY", "No reducible files.",
                                       Blank, <<>>, FALSE))
            /\ pc' = "export"
       ELSE /\ pc' = "confirm"
            /\ UNCHANGED log
    /\ UNCHANGED <<which, choice, delete_choice, fs, args, cutoff, listing,
                   todo, csv_rows, reducible_files, file_info, futures,
                   reduction_results, counter, stop_event, spinner_thread,
                   del_i, csv_file, encoded, history>>

----------------------------------------------------------------------------
(* main(): the reduction gate and the parallel reduction *)

NoResult == [src |-> <<>>, dst |-> <<>>, savings_bytes |-> 0,
             savings_percent |-> Zero, success |-> FALSE]

submit_all_twice(items) ==
    [i \in 1..2 * Len(items) |->
        [item |-> items[((i - 1) % Len(items)) + 1], state |-> "pending",
         result |-> NoResult, yielded |-> FALSE]]

\* executor.submit(reduce_worker, item) for item in reducible_files
submit_all(items) ==
    [i \in 1..Len(items) |->
        [item |-> items[i], state |-> "pending", result |-> NoResult,
         yielded |-> FALSE]]

ConfirmReductionAlwaysProceeds ==
    /\ pc = "confirm"
    /\ \E answer \in {"y", "n"} :
          choice' = IF args.auto THEN "y" ELSE answer
    /\ pc' = "start_reduction"
    /\ UNCHANGED <<which, delete_choice, fs, args, cutoff, listing, todo,
                   csv_rows, log, reducible_files, file_info, futures,
                   reduction_results, counter, stop_event, spinner_thread,
                   del_i, csv_file, encoded, history>>

\* "Proceed with reduction? (y/n)", or "y" in auto mode
ConfirmReduction ==
    /\ pc = "confirm"
    /\ \E answer \in {"y", "n"} :
          /\ choice' = IF args.auto THEN "y" ELSE answer
          /\ IF choice' # "y"
             THEN /\ log' = Append(log, Line("SUMMARY",
                                   "Reduction aborted by user.", Blank,
                                   <<>>, FALSE))
                  /\ pc' = "export"
             ELSE /\ pc' = "start_reduction"
                  /\ UNCHANGED log
    /\ UNCHANGED <<which, delete_choice, fs, args, cutoff, listing, todo,
                   csv_rows, reducible_files, file_info, futures,
                   reduction_results, counter, stop_event, spinner_thread,
                   del_i, csv_file, encoded, history>>

\* the counter, the event, spinner_thread.start(), and executor.submit of
\* every item of reducible_files
StartReduction ==
    /\ pc = "start_reduction"
    /\ counter' = 0
    /\ stop_event' = FALSE
    /\ spinner_thread' = "running"
    /\ reduction_results' = <<>>
    /\ futures' = submit_all(reducible_files)
    /\ pc' = "reducing"
    /\ UNCHANGED <<which, choice, delete_choice, fs, args, cutoff, listing,
                   todo, csv_rows, log, reducible_files, file_info, del_i,
                   csv_file, encoded, history>>

spinner_counting ==
    /\ spinner_thread = "running"
    /\ pc \notin {"crashed", "exit"}
    /\ spinner_thread' = IF stop_event THEN "exited" ELSE "running"
    /\ counter' = IF stop_event \/ counter >= Len(futures)
                  THEN counter ELSE counter + 1
    /\ UNCHANGED <<which, choice, delete_choice, fs, pc, args, cutoff, listing,
                   todo, csv_rows, log, reducible_files, file_info, futures,
                   reduction_results, stop_event, del_i, csv_file, encoded,
                   history>>

\* one turn of "while not stop_event.is_set()": the thread reads
\* counter["count"] and prints it, or sees the event and returns
spinner ==
    /\ spinner_thread = "running"
    /\ pc \notin {"crashed", "exit"}
    /\ spinner_thread' = IF stop_event THEN "exited" ELSE "running"
    /\ UNCHANGED <<which, choice, delete_choice, fs, pc, args, cutoff, listing,
                   todo, csv_rows, log, reducible_files, file_info, futures,
                   reduction_results, counter, stop_event, del_i, csv_file,
                   encoded, history>>

\* what one encoder invocation may do: its exit code and the file it
\* leaves at the destination (none, empty, smaller, as large as the source,
\* or one ffprobe cannot read)
Wrote(rc, size, out) ==
    [rc |-> rc, wrote |-> TRUE, size |-> size, out |-> out]

NoOutput(rc) == [rc |-> rc, wrote |-> FALSE, size |-> 0, out |-> OutEmpty]

Good128 == OutJson(Num(TARGET_BITRATE), Dur(1, 1))

EncoderOutcomes(src_size) ==
    { Wrote(0, 16000, Good128), Wrote(0, 0, OutEmpty),
      Wrote(0, src_size, Good128), Wrote(0, 16000, OutGarbage),
      NoOutput(0), Wrote(1, 16000, Good128) }

\* ffmpeg -y -i src ... dst
Encode(f, dst, o) ==
    IF o.wrote
    THEN Put(f, dst, File(o.size, EncodeTime, o.out))
    ELSE f

reduce_worker_exit_code_only(f, item, rc) ==
    [src |-> item.path, dst |-> DerivedPath(item.path),
     savings_bytes |-> item.savings_bytes,
     savings_percent |-> item.savings_percent, success |-> (rc = 0)]

\* reduce_worker's return value, given the file system the encoder left
reduce_worker(f, item, rc) ==
    LET src == item.path
        dst == DerivedPath(src)
        success == (rc = 0) /\ Exists(f, dst) /\ f[dst].size > 0
    IN [src |-> src, dst |-> dst, savings_bytes |-> item.savings_bytes,
        savings_percent |-> item.savings_percent, success |-> success]

\* the encoder runs recorded for a source so far
RunsOf(runs, src) == IF src \in DOMAIN runs THEN runs[src] ELSE <<>>

\* a pool process runs reduce_worker for one submitted task, or dies / raises
\* while doing so
WorkerRun ==
    /\ pc \in {"reducing", "raising"}
    /\ \E i \in 1..Len(futures) :
          /\ futures[i].state = "pending"
          /\ LET item == futures[i].item IN
             \/ \E o \in EncoderOutcomes(item.size) :
                   /\ fs' = Encode(fs, DerivedPath(item.path), o)
                   /\ futures' = [futures EXCEPT
                         ![i].state = "done",
                         ![i].result = reduce_worker(fs', item, o.rc)]
                   /\ encoded' = Put(encoded, item.path,
                         Append(RunsOf(encoded, item.path), o.rc))
             \/ /\ futures' = [futures EXCEPT ![i].state = "raised"]
                /\ UNCHANGED <<fs, encoded>>
    /\ UNCHANGED <<which, choice, delete_choice, pc, args, cutoff, listing,
                   todo, csv_rows, log, reducible_files, file_info,
                   reduction_results, counter, stop_event, spinner_thread,
                   del_i, csv_file, history>>

ReduceRowAnyKey(info_map, result) ==
    LET info == info_map[CHOOSE k \in DOMAIN info_map : TRUE]
    IN [filename |-> result.src, bitrate |-> Num(info.bitrate),
        size_bytes |-> Num(info.size),
        estimated_size_bytes |-> Num(info.estimated_size),
        savings_bytes |-> Num(info.savings_bytes),
        savings_percent |-> Fmt2(info.savings_percent),
        action |-> "REDUCE", skip_reason |-> Reason("")]

\* the REDUCE row: file_info.get(result["src"]) and the row built from it
ReduceRow(info_map, result) ==
    LET known == result.src \in DOMAIN info_map
        info == info_map[result.src]
    IN [filename |-> result.src,
        bitrate |-> IF known THEN Num(info.bitrate) ELSE Blank,
        size_bytes |-> IF known THEN Num(info.size) ELSE Blank,
        estimated_size_bytes |-> IF known THEN Num(info.estimated_size)
                                 ELSE Blank,
        savings_bytes |-> IF known THEN Num(info.savings_bytes)
                          ELSE Num(result.savings_bytes),
        savings_percent |-> IF known THEN Fmt2(info.savings_percent)
                            ELSE Fmt2(result.savings_percent),
        action |-> "REDUCE", skip_reason |-> Reason("")]

collected_only_successes(results, result) ==
    IF result.success THEN Append(results, result) ELSE results

\* reduction_results.append(result)
collected(results, result) == Append(results, result)

\* one iteration of "for future in as_completed(futures)": future.result()
\* returns the worker's result or re-raises what ended the worker
Collect ==
    /\ pc = "reducing"
    /\ \E i \in 1..Len(futures) :
          /\ futures[i].state # "pending"
          /\ ~futures[i].yielded
          /\ futures' = [futures EXCEPT ![i].yielded = TRUE]
          /\ IF futures[i].state = "raised"
             THEN /\ pc' = "raising"
                  /\ UNCHANGED <<reduction_results, counter, log, csv_rows>>
             ELSE LET result == futures[i].result IN
                  /\ reduction_results' = collected(reduction_results,
                                                     result)
                  /\ counter' = counter + 1
                  /\ log' = Append(log, Line("REDUCE", "",
                                 Fmt2(result.savings_percent), result.src,
                                 result.success))
                  /\ csv_rows' = Append(csv_rows,
                                        ReduceRow(file_info, result))
                  /\ pc' = "reducing"
    /\ UNCHANGED <<which, choice, delete_choice, fs, args, cutoff, listing,
                   todo, reducible_files, file_info, stop_event, spinner_thread,
                   del_i, csv_file, encoded, history>>

AllYielded == \A i \in 1..Len(futures) : futures[i].yielded

NonePending == \A i \in 1..Len(futures) : futures[i].state # "pending"

\* the loop and the with block end normally: stop_event.set()
CoordinatorDone ==
    /\ pc = "reducing"
    /\ AllYielded
    /\ stop_event' = TRUE
    /\ pc' = "joining"
    /\ UNCHANGED <<which, choice, delete_choice, fs, args, cutoff, listing,
                   todo, csv_rows, log, reducible_files, file_info, futures,
                   reduction_results, counter, spinner_thread, del_i, csv_file,
                   encoded, history>>

\* spinner_thread.join() returns; the summary line
Join ==
    /\ pc = "joining"
    /\ spinner_thread = "exited"
    /\ log' = Append(log, Line("SUMMARY", "Reduced files successfully",
                               Num(counter), <<>>, FALSE))
    /\ pc' = "confirm_delete"
    /\ UNCHANGED <<which, choice, delete_choice, fs, args, cutoff, listing,
                   todo, csv_rows, reducible_files, file_info, futures,
                   reduction_results, counter, stop_event, spinner_thread,
                   del_i, csv_file, encoded, history>>

\* future.result() raised inside the with block: the executor's __exit__
\* waits for the tasks still running, then the exception leaves main()
\* uncaught and the interpreter exits
ExecutorShutdown ==
    /\ pc = "raising"
    /\ NonePending
    /\ pc' = "crashed"
    /\ UNCHANGED <<which, choice, delete_choice, fs, args, cutoff, listing,
                   todo, csv_rows, log, reducible_files, file_info, futures,
                   reduction_results, counter, stop_event, spinner_thread,
                   del_i, csv_file, encoded, history>>

----------------------------------------------------------------------------
(* main(): the deletion gate and the safe-delete loop *)

verify_and_delete_equal_ok(f, original, reduced, unlink_ok) ==
    IF ~Exists(f, reduced) \/ f[reduced].size <= 0
       \/ f[reduced].size > f[original].size
       \/ f[reduced].mtime <= f[original].mtime
       \/ ~ffprobe_audio_info(f, reduced).ok
       \/ ~unlink_ok
    THEN [unlink |-> FALSE,
          line |-> Line("DELETE SKIP", "", Blank, original, FALSE)]
    ELSE [unlink |-> TRUE,
          line |-> Line("DELETE", "removed", Blank, original, FALSE)]

verify_and_delete_newer_first(f, original, reduced, unlink_ok) ==
    IF ~Exists(f, reduced)
    THEN [unlink |-> FALSE,
          line |-> Line("DELETE SKIP", "no reduced file", Blank, original,
                        FALSE)]
    ELSE IF f[reduced].size <= 0
    THEN [unlink |-> FALSE,
          line |-> Line("DELETE SKIP", "reduced size 0", Blank, original,
                        FALSE)]
    ELSE IF f[reduced].mtime <= f[original].mtime
    THEN [unlink |-> FALSE,
          line |-> Line("DELETE SKIP", "reduced not newer", Blank, original,
                        FALSE)]
    ELSE IF f[reduced].size >= f[original].size
    THEN [unlink |-> FALSE,
          line |-> Line("DELETE SKIP", "reduced not smaller", Blank,
                        original, FALSE)]
    ELSE IF ~ffprobe_audio_info(f, reduced).ok
    THEN [unlink |-> FALSE,
          line |-> Line("DELETE SKIP", "reduced failed ffprobe", Blank,
                        original, FALSE)]
    ELSE IF ~unlink_ok
    THEN [unlink |-> FALSE,
          line |-> Line("DELETE ERROR", "", Blank, original, FALSE)]
    ELSE [unlink |-> TRUE,
          line |-> Line("DELETE", "removed", Blank, original, FALSE)]

verify_and_delete(f, original, reduced, unlink_ok) ==
    IF ~Exists(f, reduced)
    THEN [unlink |-> FALSE,
          line |-> Line("DELETE SKIP", "no reduced file", Blank, original,
                        FALSE)]
    ELSE IF f[reduced].size <= 0
    THEN [unlink |-> FALSE,
          line |-> Line("DELETE SKIP", "reduced size 0", Blank, original,
                        FALSE)]
    ELSE IF f[reduced].size >= f[original].size
    THEN [unlink |-> FALSE,
          line |-> Line("DELETE SKIP", "reduced not smaller", Blank,
                        original, FALSE)]
    ELSE IF f[reduced].mtime <= f[original].mtime
    THEN [unlink |-> FALSE,
          line |-> Line("DELETE SKIP", "reduced not newer", Blank, original,
                        FALSE)]
    ELSE IF ~ffprobe_audio_info(f, reduced).ok
    THEN [unlink |-> FALSE,
          line |-> Line("DELETE SKIP", "reduced failed ffprobe", Blank,
                        original, FALSE)]
    ELSE IF ~unlink_ok
    THEN [unlink |-> FALSE,                       \* original.unlink() raises
          line |-> Line("DELETE ERROR", "", Blank, original, FALSE)]
    ELSE [unlink |-> TRUE,
          line |-> Line("DELETE", "removed", Blank, original, FALSE)]

\* "Delete original files after verifying reduced versions? (y/n)"
ConfirmDeletion ==
    /\ pc = "confirm_delete"
    /\ \E answer \in {"y", "n"} :
          /\ delete_choice' = IF args.auto THEN "y" ELSE answer
          /\ IF delete_choice' = "y"
             THEN /\ del_i' = 1
                  /\ pc' = "deleting"
                  /\ UNCHANGED log
             ELSE /\ log' = Append(log, Line("SUMMARY",
                                   "User chose not to delete originals.",
                                   Blank, <<>>, FALSE))
                  /\ pc' = "export"
                  /\ UNCHANGED del_i
    /\ UNCHANGED <<which, choice, fs, args, cutoff, listing, todo, csv_rows,
                   reducible_files, file_info, futures, reduction_results,
                   counter, stop_event, spinner_thread, csv_file, encoded,
                   history>>

Remove(f, path) == [n \in DOMAIN f \ {path} |-> f[n]]

delete_one_ignoring_success(f, result, unlink_ok) ==
    IF ~Exists(f, result.src)
    THEN [unlink |-> FALSE,
          line |-> Line("DELETE SKIP", "original missing", Blank,
                        result.src, FALSE)]
    ELSE verify_and_delete(f, result.src, result.dst, unlink_ok)

\* the body of "for result in reduction_results"
delete_one(f, result, unlink_ok) ==
    IF ~result.success
    THEN [unlink |-> FALSE,
          line |-> Line("DELETE SKIP", "reduction failed", Blank,
                        result.src, FALSE)]
    ELSE IF ~Exists(f, result.src)
    THEN [unlink |-> FALSE,
          line |-> Line("DELETE SKIP", "original missing", Blank,
                        result.src, FALSE)]
    ELSE verify_and_delete(f, result.src, result.dst, unlink_ok)

DeleteStepPropagating ==
    /\ pc = "deleting"
    /\ del_i <= Len(reduction_results)
    /\ \E unlink_ok \in BOOLEAN :
          LET result == reduction_results[del_i]
              d == delete_one(fs, result, unlink_ok)
          IN IF d.line.tag = "DELETE ERROR"
             THEN pc' = "crashed" /\ UNCHANGED <<log, fs, del_i>>
             ELSE /\ log' = Append(log, d.line)
                  /\ fs' = IF d.unlink THEN Remove(fs, result.src) ELSE fs
                  /\ del_i' = del_i + 1
                  /\ pc' = pc
    /\ UNCHANGED <<which, choice, delete_choice, args, cutoff, listing, todo,
                   csv_rows, reducible_files, file_info, futures,
                   reduction_results, counter, stop_event, spinner_thread,
                   csv_file, encoded, history>>

\* one iteration of "for result in reduction_results"; original.unlink()
\* may fail (the file is in use, or read-only)
DeleteStep ==
    /\ pc = "deleting"
    /\ del_i <= Len(reduction_results)
    /\ \E unlink_ok \in BOOLEAN :
          LET result == reduction_results[del_i]
              d == delete_one(fs, result, unlink_ok)
          IN /\ log' = Append(log, d.line)
             /\ fs' = IF d.unlink THEN Remove(fs, result.src) ELSE fs
    /\ del_i' = del_i + 1
    /\ UNCHANGED <<which, choice, delete_choice, pc, args, cutoff, listing,
                   todo, csv_rows, reducible_files, file_info, futures,
                   reduction_results, counter, stop_event, spinner_thread,
                   csv_file, encoded, history>>

DeleteEnd ==
    /\ pc = "deleting"
    /\ del_i > Len(reduction_results)
    /\ pc' = "export"
    /\ UNCHANGED <<which, choice, delete_choice, fs, args, cutoff, listing,
                   todo, csv_rows, log, reducible_files, file_info, futures,
                   reduction_results, counter, stop_event, spinner_thread,
                   del_i, csv_file, encoded, history>>

----------------------------------------------------------------------------

Next ==
    \/ DetectTools
    \/ Configure
    \/ ScanStep
    \/ ScanEnd
    \/ ConfirmReduction
    \/ StartReduction
    \/ spinner
    \/ WorkerRun
    \/ Collect
    \/ CoordinatorDone
    \/ Join
    \/ ExecutorShutdown
    \/ ConfirmDeletion
    \/ DeleteStep
    \/ DeleteEnd
    \/ ExportCsv

Spec == Init /\ [][Next]_vars

----------------------------------------------------------------------------
(* The preview alone, over directories with more kinds of files: main() up *)
(* to the reduction gate, or to its end when nothing is reducible         *)

\* 10,000,000 bytes, 600 s, above the target bitrate
LongFile == File(10000000, AtCutoffTime, Above(Dur(600, 1)))

ScanKinds ==
    ProbeKinds
    \cup { Reducible(AtCutoffTime), Dangling, LongFile,
            File(20000, AtCutoffTime, Above(Dur(1, 1))),
            File(40000, AtCutoffTime, Exit(1, Good320)),
            File(40000, AtCutoffTime, Exit(1, OutEmpty)),
            File(40000, AtCutoffTime, Exit(1, OutJson(Absent, Absent))),
            File(40000, AtCutoffTime, OutNoLaunch),
            File(40000, AtCutoffTime, OutGarbage),
            File(40000, AtCutoffTime, OutJson(NA, Dur(1, 1))),
            File(40000, AtCutoffTime, OutJson(Num(320000), NA)),
            File(40000, AtCutoffTime, OutJson(Num(320000), Absent)),
            File(16001, AtCutoffTime, Above(Dur(1, 1))),
            File(15999, AtCutoffTime, Above(Dur(1, 1))),
            File(40000, AtCutoffTime, Above(Dur(0, 1))),
            File(0, AtCutoffTime, Above(Dur(0, 1))),
            File(40000, AtCutoffTime, Above(Dur(-1, 1))),
            File(0, AtCutoffTime, Above(Dur(-1, 1))) }

ScanNames == { <<"a", ".mp3">>, <<".mp3">>, <<".mp3", ".mp3">> }

ScanKindsOf(name) ==
    IF name = <<"a", ".mp3">> THEN ScanKinds ELSE {Reducible(AtCutoffTime)}

ScanDirectories ==
    UNION { { f \in [names -> UNION {ScanKindsOf(n) : n \in names}] :
                \A n \in names : f[n] \in ScanKindsOf(n) } :
            names \in { s \in SUBSET ScanNames : Cardinality(s) <= MaxFiles } }

InitScan == fs \in ScanDirectories /\ Start

NextScan ==
    \/ DetectTools
    \/ Configure
    \/ ScanStep
    \/ ScanEnd
    \/ ExportCsv

SpecScan == InitScan /\ [][NextScan]_vars

----------------------------------------------------------------------------
(* A whole run over one directory of three files: a 320 kbps file of 5 MB  *)
(* and 180 s, a 96 kbps file, and track_reduced.mp3                         *)

\* 5 MB, as 5 * 10^6 or as 5 * 2^20 bytes
FiveMB == {5000000, 5242880}

File320(size) ==
    File(size, AtCutoffTime, OutJson(Num(320000), Dur(180, 1)))

Files96 ==
    { File(2160000, AtCutoffTime, OutJson(Num(96000), Dur(180, 1))),
      File(40000, AtCutoffTime, OutJson(Num(96000), Dur(1, 1))) }

FilesTrackReduced ==
    { Reducible(AtCutoffTime), File(2880000, AtCutoffTime, Good128) }

ScenarioDirectories ==
    { [n \in { <<"a", ".mp3">>, <<"b", ".mp3">>,
               <<"track", "_reduced", ".mp3">> } |->
          CASE n = <<"a", ".mp3">> -> File320(size)
            [] n = <<"b", ".mp3">> -> f96
            [] OTHER -> marked] :
      size \in FiveMB, f96 \in Files96, marked \in FilesTrackReduced }

InitScenario == fs \in ScenarioDirectories /\ Start

SpecScenario == InitScenario /\ [][Next]_vars

----------------------------------------------------------------------------
(* The safe-delete loop alone, applied to results and files drawn from     *)
(* bounded sets: main() from the first iteration of the deletion loop on   *)

\* an original of 40000 bytes, and the derived files it may be compared
\* with: empty, smaller, as large or larger; older, as old or newer;
\* readable by ffprobe or not; a dangling link
DerivedKinds ==
    { File(size, mtime, out) :
        size \in {0, 16000, 40000, 50000},
        mtime \in {OldTime, AtCutoffTime, EncodeTime},
        out \in {Good128, OutGarbage} }
    \cup {Dangling}

DeleteNames ==
    { <<"a", ".mp3">>, <<"a", "_reduced", ".mp3">>,
      <<".mp3">>, <<".mp3", "_reduced", ".mp3">> }

DeleteKindsOf(name) ==
    CASE name = <<"a", "_reduced", ".mp3">> -> DerivedKinds
      [] name = <<".mp3", "_reduced", ".mp3">> ->
            { File(16000, EncodeTime, Good128),
              File(50000, OldTime, OutGarbage) }
      [] OTHER -> {Reducible(AtCutoffTime)}

DeleteDirectories ==
    UNION { { f \in [names -> UNION {DeleteKindsOf(n) : n \in names}] :
                \A n \in names : f[n] \in DeleteKindsOf(n) } :
            names \in SUBSET DeleteNames }

\* a worker's result for a source of 40000 bytes and 1 s
ResultOf(src, success) ==
    [src |-> src, dst |-> DerivedPath(src), savings_bytes |-> 24000,
     savings_percent |-> savings_percent_of(24000, 40000),
     success |-> success]

\* the results of one or two tasks with distinct sources, in either order
DeleteResults ==
    { <<ResultOf(<<"a", ".mp3">>, ok)>> : ok \in BOOLEAN }
    \cup { <<ResultOf(<<".mp3">>, ok)>> : ok \in BOOLEAN }
    \cup { <<ResultOf(<<"a", ".mp3">>, ok1), ResultOf(<<".mp3">>, ok2)>> :
             ok1 \in BOOLEAN, ok2 \in BOOLEAN }
    \cup { <<ResultOf(<<".mp3">>, ok2), ResultOf(<<"a", ".mp3">>, ok1)>> :
             ok1 \in BOOLEAN, ok2 \in BOOLEAN }

\* delete_choice == "y": the loop over reduction_results is about to start
InitDelete ==
    /\ fs \in DeleteDirectories
    /\ reduction_results \in DeleteResults
    /\ which = [ffmpeg |-> TRUE, ffprobe |-> TRUE]
    /\ pc = "deleting"
    /\ choice = "y"
    /\ delete_choice = "y"
    /\ args \in [auto : BOOLEAN, nocsv : {TRUE}, minutes : {0}]
    /\ cutoff = NoCutoff
    /\ listing = {}
    /\ todo = {}
    /\ csv_rows = <<>>
    /\ log = <<>>
    /\ reducible_files = <<>>
    /\ file_info = <<>>
    /\ futures = <<>>
    /\ counter = Len(reduction_results)
    /\ stop_event = TRUE
    /\ spinner_thread = "exited"
    /\ del_i = 1
    /\ csv_file = <<>>
    /\ encoded = <<>>
    /\ history = <<>>

NextDelete ==
    \/ DeleteStep
    \/ DeleteEnd
    \/ ExportCsv

SpecDelete == InitDelete /\ [][NextDelete]_vars

----------------------------------------------------------------------------
(* The program run again over the directory an earlier run has left       *)

MaxRuns == 2

TwoRunNames == { <<"a", ".mp3">>, <<".mp3">> }

\* one reducible file, before the first run
TwoRunDirectories ==
    { [n \in {name} |-> Reducible(AtCutoffTime)] : name \in TwoRunNames }

InitTwoRuns == fs \in TwoRunDirectories /\ Start

\* the sources the encoder ran on whose derived file exists
LeftReduced(f, runs) == { src \in DOMAIN runs : Exists(f, DerivedPath(src)) }

\* the process has ended (main() returned or an exception left it) and the
\* program is started again: nothing but the files is carried over
RunAgain ==
    /\ pc \in {"exit", "crashed"}
    /\ Len(history) < MaxRuns - 1
    /\ history' = Append(history, LeftReduced(fs, encoded))
    /\ pc' = "start"
    /\ choice' = ""
    /\ delete_choice' = ""
    /\ args' = [auto |-> FALSE, nocsv |-> FALSE, minutes |-> 0]
    /\ cutoff' = NoCutoff
    /\ listing' = {}
    /\ todo' = {}
    /\ csv_rows' = <<>>
    /\ log' = <<>>
    /\ reducible_files' = <<>>
    /\ file_info' = <<>>
    /\ futures' = <<>>
    /\ reduction_results' = <<>>
    /\ counter' = 0
    /\ stop_event' = FALSE
    /\ spinner_thread' = "none"
    /\ del_i' = 0
    /\ csv_file' = <<>>
    /\ encoded' = <<>>
    /\ UNCHANGED <<which, fs>>

NextTwoRuns ==
    \/ DetectTools
    \/ Configure
    \/ ScanStep
    \/ ScanEnd
    \/ ConfirmReduction
    \/ StartReduction
    \/ spinner
    \/ WorkerRun
    \/ Collect
    \/ CoordinatorDone
    \/ Join
    \/ ExecutorShutdown
    \/ ConfirmDeletion
    \/ DeleteStep
    \/ DeleteEnd
    \/ ExportCsv
    \/ RunAgain

SpecTwoRuns == InitTwoRuns /\ [][NextTwoRuns]_vars

----------------------------------------------------------------------------
(* Vocabulary of the properties, stated on the files themselves *)

Rows == 1..Len(csv_rows)

Tasks == 1..Len(futures)

Results == 1..Len(reduction_results)

\* the eligibility rows (PASS or SKIP) of one file
RowsOf(n) ==
    { i \in Rows : csv_rows[i].filename = n
                   /\ csv_rows[i].action \in {"PASS", "SKIP"} }

\* no encoder has run and nothing was deleted: fs is the scanned directory
Untouched == futures = <<>>

\* the as_completed loop and the with block ended without an exception
CoordinatorFinished == stop_event

\* the name contains "_reduced" in some letter case
MarkerName(n) == \E i \in 1..Len(n) : n[i] \in {"_reduced", "_REDUCED"}

\* the metadata probe of this file gives a bitrate and a duration
UsableMetadata(file) ==
    /\ ~file.dangling
    /\ file.out.k = "json"
    /\ file.out.bit_rate.t = "num"
    /\ file.out.duration.t = "num"

BitrateOf(file) == file.out.bit_rate.v

\* floor(128000 * duration / 8) for a duration >= 0
EstimateOf(file) ==
    (128000 * file.out.duration.v.num) \div (8 * file.out.duration.v.den)

SavingsOf(file) == file.size - EstimateOf(file)

\* the five safe-delete predicates
FivePredicates(f, original, reduced) ==
    /\ reduced \in DOMAIN f
    /\ ~f[reduced].dangling
    /\ f[reduced].size > 0
    /\ f[reduced].size < f[original].size
    /\ f[reduced].mtime > f[original].mtime
    /\ UsableMetadata(f[reduced])

\* the rules of the eligibility decision, in the order of the design
SiblingExists(f, n) ==
    /\ DerivedPath(n) \in DOMAIN f
    /\ ~f[DerivedPath(n)].dangling

OlderThanCutoff(f, cut, n) == cut.set /\ f[n].mtime < cut.t

ReasonByRule(f, cut, n) ==
    IF SiblingExists(f, n) THEN "_reduced version exists"
    ELSE IF OlderThanCutoff(f, cut, n) THEN "outside time window"
    ELSE IF MarkerName(n) THEN "already reduced"
    ELSE IF ~UsableMetadata(f[n]) THEN "no metadata"
    ELSE IF BitrateOf(f[n]) <= 128000 THEN "already 128 kbps or lower"
    ELSE IF SavingsOf(f[n]) <= 0 THEN "would not shrink"
    ELSE IF SavingsOf(f[n]) * 100 < 20 * f[n].size THEN "below threshold"
    ELSE ""

----------------------------------------------------------------------------
(* Properties *)

\* C1: an original disappears only in the deletion loop, only as the source
\* of the result being processed, and only when the derived file exists, is
\* non-empty, is strictly smaller and strictly newer than the original and
\* probes to usable metadata; otherwise the original stays.
C1_SafeDelete ==
    [][\A p \in DOMAIN fs :
          p \notin DOMAIN fs' =>
             /\ pc = "deleting"
             /\ del_i \in Results
             /\ reduction_results[del_i].src = p
             /\ FivePredicates(fs, p, reduction_results[del_i].dst)]_vars

\* the deletion loop is over; one original was removed and another, whose
\* derived file is exactly as large as the original, was kept
C1_Witness ==
    /\ pc = "export"
    /\ del_i > Len(reduction_results)
    /\ \E i, j \in Results :
          LET ri == reduction_results[i]
              rj == reduction_results[j]
          IN /\ ri.src \notin DOMAIN fs
             /\ rj.success
             /\ rj.src \in DOMAIN fs
             /\ rj.dst \in DOMAIN fs
             /\ fs[rj.dst].size = fs[rj.src].size

\* the exit code of the last encoder invocation for a source
ExitCodeOf(src) == encoded[src][Len(encoded[src])]

\* C2: an encoder failure (non-zero exit, or no or an empty derived file)
\* gives success = FALSE on that task's result; the run reaches the
\* uncaught-exception path only when a worker raised, never because an
\* encode failed; and the original of a failed result is never removed.
C2_EncodeFailure ==
    /\ \A i \in Tasks :
          futures[i].state = "done" =>
             LET r == futures[i].result IN
             ( \/ ExitCodeOf(r.src) # 0
               \/ r.dst \notin DOMAIN fs
               \/ fs[r.dst].size = 0 ) => ~r.success
    /\ (pc \in {"raising", "crashed"} /\ futures # <<>>) =>
          \E i \in Tasks : futures[i].state = "raised"
    /\ \A j \in Results :
          ~reduction_results[j].success =>
             reduction_results[j].src \in DOMAIN fs

\* deletion was authorized and ran to its end: a failed result kept its
\* original while a sibling's original was removed
C2_Witness ==
    /\ pc = "export"
    /\ del_i > Len(reduction_results)
    /\ \E i, j \in Results :
          /\ ~reduction_results[i].success
          /\ reduction_results[i].src \in DOMAIN fs
          /\ reduction_results[j].success
          /\ reduction_results[j].src \notin DOMAIN fs

\* C3: once the coordinator has finished, reduction_results holds as many
\* results as tasks were submitted and each task's source path exactly
\* once, for every outcome and completion order.
C3_OneResultPerTask ==
    CoordinatorFinished =>
       /\ Len(reduction_results) = Len(futures)
       /\ \A i \in Tasks :
             Cardinality({ j \in Results :
                 reduction_results[j].src = futures[i].item.path }) = 1

\* two tasks finished; the second one submitted was collected first and
\* had failed
C3_Witness ==
    /\ CoordinatorFinished
    /\ Len(futures) = 2
    /\ reduction_results[1].src = futures[2].item.path
    /\ ~reduction_results[1].success
    /\ reduction_results[2].success

\* C4: a worker that raised (or whose process died) shows up as a result
\* with success = FALSE for its task, and the run goes on.
C4_CrashSurfaced ==
    \A i \in Tasks :
       (futures[i].state = "raised" /\ futures[i].yielded) =>
          /\ pc \notin {"raising", "crashed"}
          /\ \E j \in Results :
                /\ reduction_results[j].src = futures[i].item.path
                /\ ~reduction_results[j].success

\* C5: whenever the coordinator has been left, normally or by an
\* exception, the spinner's stop event is set and its thread has ended.
C5_SpinnerStopped ==
    (spinner_thread # "none" /\ pc \notin {"reducing", "raising", "joining"})
       => (stop_event /\ spinner_thread = "exited")

\* C6: a scanned file's row is PASS exactly when no derived sibling exists,
\* it is not older than an active cutoff, its name has no marker, the probe
\* gave metadata, the bitrate is above 128000, the savings are positive and
\* at least 20 percent of the size.
C6_PassIff ==
    Untouched =>
       \A i \in Rows :
          LET n == csv_rows[i].filename IN
          csv_rows[i].action = "PASS" <=>
             /\ ~SiblingExists(fs, n)
             /\ ~OlderThanCutoff(fs, cutoff, n)
             /\ ~MarkerName(n)
             /\ UsableMetadata(fs[n])
             /\ BitrateOf(fs[n]) > 128000
             /\ SavingsOf(fs[n]) > 0
             /\ SavingsOf(fs[n]) * 100 >= 20 * fs[n].size

\* C7: every row carries the outcome of the first rule that matches, in the
\* order sibling, time window, marker, no metadata, at or below target,
\* would not shrink, below threshold, PASS.
C7_RuleOrder ==
    Untouched =>
       \A i \in Rows :
          csv_rows[i].skip_reason.text
             = ReasonByRule(fs, cutoff, csv_rows[i].filename)

\* C8: a file whose name carries the marker gets no PASS row, is never a
\* task and never reaches the encoder; once the scan is over it has a SKIP
\* row.
C8_MarkerSkipped ==
    /\ \A i \in Rows :
          MarkerName(csv_rows[i].filename) => csv_rows[i].action = "SKIP"
    /\ \A i \in 1..Len(reducible_files) :
          ~MarkerName(reducible_files[i].path)
    /\ \A i \in Tasks : ~MarkerName(futures[i].item.path)
    /\ \A src \in DOMAIN encoded : ~MarkerName(src)
    /\ (pc \notin {"start", "args", "scan", "crashed"} \/ futures # <<>>) =>
          \A n \in listing : MarkerName(n) => RowsOf(n) # {}

\* the scan is over; a marker-named file that has no derived sibling, is
\* inside the time window and would probe to 320 kbps with 60 percent
\* savings was skipped as already reduced
C8_Witness ==
    /\ pc = "export"
    /\ Untouched
    /\ \E i \in Rows :
          LET n == csv_rows[i].filename IN
          /\ MarkerName(n)
          /\ csv_rows[i].skip_reason.text = "already reduced"
          /\ UsableMetadata(fs[n])
          /\ BitrateOf(fs[n]) > 128000
          /\ SavingsOf(fs[n]) * 100 >= 20 * fs[n].size

\* C9: when the run has ended, every file the directory scan returned has
\* exactly one PASS or SKIP row.
C9_OneRecordPerFile ==
    pc \in {"exit", "crashed"} =>
       \A n \in listing : Cardinality(RowsOf(n)) = 1

\* C10: the tasks are exactly the PASS rows, one each and in distinct
\* paths; what is submitted is reducible_files, item for item; the encoder
\* runs at most once per source and only on a task's source.
C10_TasksArePassRows ==
    /\ \A i \in 1..Len(reducible_files) :
          LET n == reducible_files[i].path IN
          /\ Cardinality(RowsOf(n)) = 1
          /\ \A r \in RowsOf(n) : csv_rows[r].action = "PASS"
          /\ \A j \in 1..Len(reducible_files) :
                reducible_files[j].path = n => j = i
    /\ Cardinality({ i \in Rows : csv_rows[i].action = "PASS" })
          = Len(reducible_files)
    /\ futures # <<>> =>
          /\ Len(futures) = Len(reducible_files)
          /\ \A i \in Tasks : futures[i].item = reducible_files[i]
    /\ \A src \in DOMAIN encoded :
          /\ \E i \in 1..Len(reducible_files) :
                reducible_files[i].path = src
          /\ Len(encoded[src]) <= 1

\* the run is over: one file was skipped, the other was a task and the
\* encoder ran on it once
C10_Witness ==
    /\ pc = "exit"
    /\ \E src \in DOMAIN encoded :
          DOMAIN encoded = {src} /\ Len(encoded[src]) = 1
    /\ \E i \in Rows : csv_rows[i].action = "SKIP"
    /\ \E i \in Rows : csv_rows[i].action = "REDUCE"

\* C11: a finished worker reports success exactly when its encoder exited
\* with code 0 and the derived file exists and is not empty.
C11_SuccessIff ==
    \A i \in Tasks :
       futures[i].state = "done" =>
          LET r == futures[i].result IN
          r.success <=>
             /\ ExitCodeOf(r.src) = 0
             /\ r.dst \in DOMAIN fs
             /\ ~fs[r.dst].dangling
             /\ fs[r.dst].size > 0

\* two workers have finished without success: one encoder exited non-zero
\* and left a non-empty derived file, the other exited with 0 and left an
\* empty one
C11_Witness ==
    \E i, j \in Tasks :
       /\ futures[i].state = "done"
       /\ futures[j].state = "done"
       /\ ~futures[i].result.success
       /\ ~futures[j].result.success
       /\ ExitCodeOf(futures[i].result.src) # 0
       /\ futures[i].result.dst \in DOMAIN fs
       /\ fs[futures[i].result.dst].size > 0
       /\ ExitCodeOf(futures[j].result.src) = 0
       /\ futures[j].result.dst \in DOMAIN fs
       /\ fs[futures[j].result.dst].size = 0

\* C12: every iteration of the deletion loop logs one line and goes on to
\* the next result; when removing the original fails, a DELETE ERROR line
\* is logged and no file changes; no file other than the result's own
\* original is touched; and whether the removal is attempted depends on the
\* result's own files alone.
C12_DeletionErrorsContained ==
    [][(pc = "deleting" /\ del_i \in Results) =>
          LET r == reduction_results[del_i]
              last == log'[Len(log')]
          IN /\ pc' = "deleting"
             /\ del_i' = del_i + 1
             /\ Len(log') = Len(log) + 1
             /\ last.tag = "DELETE ERROR" => fs' = fs
             /\ \A p \in DOMAIN fs \ {r.src} :
                   p \in DOMAIN fs' /\ fs'[p] = fs[p]
             /\ (r.src \notin DOMAIN fs' \/ last.tag = "DELETE ERROR")
                   <=> /\ r.success
                       /\ r.src \in DOMAIN fs
                       /\ FivePredicates(fs, r.src, r.dst)]_vars

\* the loop is over: removing one original failed and was logged, and the
\* original of a later result was removed all the same
C12_Witness ==
    /\ pc = "export"
    /\ \E i, j \in 1..Len(log) :
          /\ i < j
          /\ log[i].tag = "DELETE ERROR"
          /\ log[i].file \in DOMAIN fs
          /\ log[j].tag = "DELETE"
          /\ log[j].file \notin DOMAIN fs

\* C13: no error tied to one file ends the scan: as long as listed files
\* are waiting to be classified, the preview loop is still running.
C13_ScanContained == todo # {} => pc = "scan"

\* the probe process was launched, exited with code 0 and printed a JSON
\* document whose bit_rate and duration are both present and numeric
ProbeSucceeds(file) ==
    /\ ~file.dangling
    /\ file.out.k = "json"
    /\ file.out.rc = 0
    /\ file.out.bit_rate.t = "num"
    /\ file.out.duration.t = "num"

\* C14: the probe gives null exactly when the process cannot be launched,
\* exits non-zero, prints empty or non-parsable output or omits a field:
\* a scanned file is SKIP "no metadata" exactly when its probe did not
\* succeed.
C14_ProbeFailsClosed ==
    \A i \in Rows :
       csv_rows[i].skip_reason.text = "no metadata"
          <=> ~ProbeSucceeds(fs[csv_rows[i].filename])

\* C15: when ffmpeg or ffprobe is not on the PATH, the run never gets past
\* its start: nothing is listed, classified, logged, submitted, encoded or
\* deleted, no gate is answered and no report is written.
C15_MissingToolAborts ==
    (~which.ffmpeg \/ ~which.ffprobe) =>
       /\ pc \in {"start", "exit"}
       /\ listing = {}
       /\ todo = {}
       /\ csv_rows = <<>>
       /\ log = <<>>
       /\ reducible_files = <<>>
       /\ futures = <<>>
       /\ DOMAIN encoded = {}
       /\ reduction_results = <<>>
       /\ del_i = 0
       /\ choice = ""
       /\ delete_choice = ""
       /\ csv_file = <<>>

\* the run has ended over a directory that holds a reducible file, with
\* ffmpeg on the PATH and ffprobe missing
C15_Witness ==
    /\ pc = "exit"
    /\ which.ffmpeg
    /\ ~which.ffprobe
    /\ \E n \in DOMAIN fs : fs[n] = Reducible(AtCutoffTime) /\ ~MarkerName(n)

\* C16: an encoder runs only after every listed file has its eligibility
\* row and the reduction gate was passed; an original is removed only after
\* every task has finished and been collected and the deletion gate was
\* passed; once a gate is declined no file is written or removed.
C16_PhasesOrdered ==
    [][/\ encoded' # encoded =>
             /\ todo = {}
             /\ \A n \in listing : RowsOf(n) # {}
             /\ choice = "y"
       /\ (\E p \in DOMAIN fs : p \notin DOMAIN fs') =>
             /\ delete_choice = "y"
             /\ stop_event
             /\ \A i \in Tasks :
                   futures[i].state = "done" /\ futures[i].yielded
       /\ choice = "n" => (fs' = fs /\ encoded' = encoded)
       /\ delete_choice = "n" => fs' = fs]_vars

\* a run with prompts has ended: the user let the reduction run, the
\* encoder ran, and the user then declined the deletion
C16_Witness ==
    /\ pc = "exit"
    /\ ~args.auto
    /\ choice = "y"
    /\ delete_choice = "n"
    /\ DOMAIN encoded # {}
    /\ \A i \in Results : reduction_results[i].src \in DOMAIN fs

\* C17: a step in which a worker finishes, or in which the spinner thread
\* ends, writes no log line, no report row, no report file and not the
\* counter; the counter changes only when the coordinator collects a
\* finished task; log lines and rows are added only at main()'s own
\* positions, and during the reduction only together with a collection.
C17_SingleWriter ==
    [][LET WorkerFinishes ==
              /\ Len(futures') = Len(futures)
              /\ \E i \in Tasks : /\ futures[i].state = "pending"
                                  /\ futures'[i].state # "pending"
           SpinnerEnds ==
              spinner_thread = "running" /\ spinner_thread' # "running"
           Collects ==
              /\ pc = "reducing"
              /\ Len(futures') = Len(futures)
              /\ \E i \in Tasks : /\ futures[i].state = "done"
                                  /\ ~futures[i].yielded
                                  /\ futures'[i].yielded
       IN /\ (WorkerFinishes \/ SpinnerEnds) =>
                /\ log' = log
                /\ csv_rows' = csv_rows
                /\ csv_file' = csv_file
                /\ counter' = counter
          /\ counter' # counter => Collects
          /\ (log' # log \/ csv_rows' # csv_rows) =>
                /\ pc \in {"scan", "confirm", "reducing", "joining",
                           "confirm_delete", "deleting"}
                /\ pc = "reducing" => Collects]_vars

\* the reduction is under way: the spinner thread is running, one result
\* has been collected and counted, and another worker has finished whose
\* result is not collected yet
C17_Witness ==
    /\ pc = "reducing"
    /\ spinner_thread = "running"
    /\ counter = 1
    /\ Len(reduction_results) = 1
    /\ \E i \in Tasks : futures[i].state = "done" /\ ~futures[i].yielded

\* the PASS rows of a file name
PassRowsOf(n) ==
    { j \in Rows : csv_rows[j].filename = n /\ csv_rows[j].action = "PASS" }

\* C18: every REDUCE row has exactly one PASS row of the same source file,
\* and its bitrate, size, estimated size, savings bytes and savings percent
\* are those of that PASS row.
C18_ReduceRowJoin ==
    \A i \in Rows :
       csv_rows[i].action = "REDUCE" =>
          /\ Cardinality(PassRowsOf(csv_rows[i].filename)) = 1
          /\ \A j \in PassRowsOf(csv_rows[i].filename) :
                /\ csv_rows[i].bitrate = csv_rows[j].bitrate
                /\ csv_rows[i].size_bytes = csv_rows[j].size_bytes
                /\ csv_rows[i].estimated_size_bytes
                      = csv_rows[j].estimated_size_bytes
                /\ csv_rows[i].savings_bytes = csv_rows[j].savings_bytes
                /\ csv_rows[i].savings_percent = csv_rows[j].savings_percent

\* two tasks with different sizes and savings were collected in the order
\* opposite to the one in which the scan classified them
C18_Witness ==
    \E p1, p2, r1, r2 \in Rows :
       /\ p1 < p2
       /\ p2 < r1
       /\ r1 < r2
       /\ csv_rows[p1].action = "PASS"
       /\ csv_rows[p2].action = "PASS"
       /\ csv_rows[r1].action = "REDUCE"
       /\ csv_rows[r2].action = "REDUCE"
       /\ csv_rows[r1].filename = csv_rows[p2].filename
       /\ csv_rows[r2].filename = csv_rows[p1].filename
       /\ csv_rows[p1].size_bytes # csv_rows[p2].size_bytes
       /\ csv_rows[p1].savings_percent # csv_rows[p2].savings_percent

\* C19: two distinct tasks never have the same derived path, and no task's
\* derived path is the source path of a task.
C19_DerivedPathsDistinct ==
    \A i, j \in 1..Len(reducible_files) :
       /\ i # j => DerivedPath(reducible_files[i].path)
                      # DerivedPath(reducible_files[j].path)
       /\ DerivedPath(reducible_files[i].path) # reducible_files[j].path

\* savings / size * 100 in hundredths of a percent, rounded to nearest
HundredthsOfSize(file) ==
    LET q == SavingsOf(file) * 100 IN
    (q \div file.size) * 100
       + ((q % file.size) * 200 + file.size) \div (2 * file.size)

\* C20: the numbers of a PASS row are floor(128000 * duration / 8), the
\* size minus that estimate, and the savings as a percentage of the
\* original size; a file is "below threshold" exactly when that percentage
\* of the original size is under 20, and the reason carries it; the file of
\* 10,000,000 bytes and 600 s has estimate 9,600,000, savings 400,000 and
\* is SKIP "below threshold" with 4.00 percent.
C20_SavingsFromOriginalSize ==
    \A i \in Rows :
       LET row == csv_rows[i]
           file == fs[row.filename]
       IN /\ row.action = "PASS" =>
                /\ row.estimated_size_bytes = Num(EstimateOf(file))
                /\ row.savings_bytes = Num(file.size - EstimateOf(file))
                /\ row.savings_percent.v = HundredthsOfSize(file)
                /\ SavingsOf(file) * 100 >= 20 * file.size
          /\ row.skip_reason.text = "below threshold" =>
                /\ row.skip_reason.pct.v = HundredthsOfSize(file)
                /\ SavingsOf(file) * 100 < 20 * file.size
          /\ file = LongFile =>
                /\ EstimateOf(file) = 9600000
                /\ SavingsOf(file) = 400000
                /\ row.action = "SKIP"
                /\ row.skip_reason.text = "below threshold"
                /\ row.skip_reason.pct.v = 400

\* the scan is over and has classified the file of 10,000,000 bytes and
\* 600 s
C20_Witness ==
    /\ pc = "export"
    /\ \E i \in Rows :
          /\ fs[csv_rows[i].filename] = LongFile
          /\ csv_rows[i].skip_reason.text = "below threshold"

\* the preview loop has classified every file of a non-empty listing
ScanOver == listing # {} /\ todo = {}

\* the eligibility rows with a given action
RowsWith(action) == { i \in Rows : csv_rows[i].action = action }

\* the three rows of the scenario, but for the savings of the first file
ScenarioRows ==
    /\ Cardinality(RowsWith("PASS")) = 1
    /\ Cardinality(RowsWith("SKIP")) = 2
    /\ \A i \in RowsWith("PASS") :
          /\ csv_rows[i].filename = <<"a", ".mp3">>
          /\ csv_rows[i].bitrate = Num(320000)
          /\ csv_rows[i].estimated_size_bytes = Num(2880000)
    /\ \A i \in RowsWith("SKIP") :
          \/ /\ csv_rows[i].filename = <<"b", ".mp3">>
             /\ csv_rows[i].skip_reason.text = "already 128 kbps or lower"
          \/ /\ csv_rows[i].filename = <<"track", "_reduced", ".mp3">>
             /\ csv_rows[i].skip_reason.text = "already reduced"

\* C21, as stated: once the scan of the three-file directory is over, the
\* report has one PASS row, for the 320 kbps file of 5 MB and 180 s, with
\* savings of about 52 percent (between 51 and 53), and two SKIP rows: the
\* 96 kbps file as at or below the target and track_reduced.mp3 as already
\* reduced.
C21_ScenarioAbout52 ==
    ScanOver =>
       /\ ScenarioRows
       /\ \A i \in RowsWith("PASS") :
             /\ csv_rows[i].savings_percent.v >= 5100
             /\ csv_rows[i].savings_percent.v <= 5300

\* C21, amended: the same rows, the PASS row with savings of 42.40 percent
\* (5,000,000 bytes) or 45.07 percent (5,242,880 bytes): the estimate is
\* 2,880,000 bytes.
C21_Scenario ==
    ScanOver =>
       /\ ScenarioRows
       /\ \A i \in RowsWith("PASS") :
             /\ csv_rows[i].size_bytes = Num(5000000) =>
                   /\ csv_rows[i].savings_bytes = Num(2120000)
                   /\ csv_rows[i].savings_percent.v = 4240
             /\ csv_rows[i].size_bytes = Num(5242880) =>
                   /\ csv_rows[i].savings_bytes = Num(2362880)
                   /\ csv_rows[i].savings_percent.v = 4507
             /\ csv_rows[i].size_bytes \in {Num(5000000), Num(5242880)}

\* the scan of the directory whose first file has 5,242,880 bytes is over
\* and the reduction gate has not been answered
C21_Witness ==
    /\ pc = "confirm"
    /\ Len(csv_rows) = 3
    /\ fs[<<"a", ".mp3">>].size = 5242880
    /\ \E i \in Rows : csv_rows[i].savings_percent.v = 4507

\* the files the preview loop has evaluated
Evaluated == listing \ todo

\* the file got past the name and time rules and its probe gave a result
Probed(f, cut, n) ==
    /\ ~SiblingExists(f, n)
    /\ ~OlderThanCutoff(f, cut, n)
    /\ ~MarkerName(n)
    /\ UsableMetadata(f[n])

DurationOf(file) == file.out.duration.v

\* C22: every evaluated file whose probe gave a bitrate above 128000 and
\* whose size minus floor(128000 * duration / 8) is zero or negative has a
\* SKIP row with the reason "would not shrink"; and a row carries that
\* reason only for a bitrate above 128000 and, the duration not being
\* negative, such savings.
C22_WouldNotShrink ==
    /\ \A n \in Evaluated :
          ( /\ Probed(fs, cutoff, n)
            /\ BitrateOf(fs[n]) > 128000
            /\ SavingsOf(fs[n]) <= 0 ) =>
             \E i \in RowsOf(n) :
                /\ csv_rows[i].action = "SKIP"
                /\ csv_rows[i].skip_reason.text = "would not shrink"
    /\ \A i \in Rows :
          csv_rows[i].skip_reason.text = "would not shrink" =>
             LET file == fs[csv_rows[i].filename] IN
             /\ csv_rows[i].action = "SKIP"
             /\ csv_rows[i].bitrate.v > 128000
             /\ DurationOf(file).num >= 0 => SavingsOf(file) <= 0

\* the scan is over: a file of 16000 bytes and 1 s, whose estimate equals
\* its size, was skipped as one that would not shrink
C22_Witness ==
    /\ pc = "export"
    /\ \E i \in Rows :
          LET file == fs[csv_rows[i].filename] IN
          /\ csv_rows[i].skip_reason.text = "would not shrink"
          /\ file.size = 16000
          /\ SavingsOf(file) = 0

\* every row of the report that names a file
AllRowsOf(n) == { i \in Rows : csv_rows[i].filename = n }

\* C23: the report rows hold exactly one row for every evaluated file and
\* none for any other; every row is tagged PASS, SKIP or REDUCE, and its
\* skip reason is empty exactly when it is not a SKIP row.
C23_OneRowPerFile ==
    /\ \A n \in Evaluated : Cardinality(AllRowsOf(n)) = 1
    /\ \A i \in Rows :
          /\ csv_rows[i].filename \in Evaluated
          /\ csv_rows[i].action \in {"PASS", "SKIP", "REDUCE"}
          /\ csv_rows[i].skip_reason.text = ""
                <=> csv_rows[i].action # "SKIP"

\* main() has returned after the scan, on one of its three ending paths
RunEnded == pc = "exit" /\ log # <<>>

\* C24: the report is written at most once and only as the run's last
\* step; a run that got past the scan and ends without --nocsv in auto mode
\* has written it once, with all the rows; with --nocsv it is never
\* written.
C24_CsvOnce ==
    /\ Len(csv_file) <= 1
    /\ csv_file # <<>> => (RunEnded /\ csv_file[1] = csv_rows)
    /\ args.nocsv => csv_file = <<>>
    /\ (RunEnded /\ ~args.nocsv /\ args.auto) => Len(csv_file) = 1

\* the reason of the first safe-delete predicate that fails, in the order
\* exists, not empty, smaller, newer, probe; "" when all five hold
FirstFailing(f, original, reduced) ==
    IF reduced \notin DOMAIN f \/ f[reduced].dangling
    THEN "no reduced file"
    ELSE IF ~(f[reduced].size > 0) THEN "reduced size 0"
    ELSE IF ~(f[reduced].size < f[original].size) THEN "reduced not smaller"
    ELSE IF ~(f[reduced].mtime > f[original].mtime) THEN "reduced not newer"
    ELSE IF ~UsableMetadata(f[reduced]) THEN "reduced failed ffprobe"
    ELSE ""

DeleteTags == {"DELETE", "DELETE SKIP", "DELETE ERROR"}

\* the deletion-phase log lines about one original
DeleteLinesOf(src) ==
    { k \in 1..Len(log) : log[k].tag \in DeleteTags /\ log[k].file = src }

\* C25: an iteration of the deletion loop adds exactly one log line, about
\* its result's original: for a successful result whose original exists it
\* is the DELETE SKIP line with the reason of the first failing predicate,
\* or, when all five hold, the DELETE line (the original is then gone) or
\* the DELETE ERROR line; and every result the loop has passed has exactly
\* one DELETE, DELETE SKIP or DELETE ERROR line.
C25_FirstFailingLogged ==
    /\ [][(pc = "deleting" /\ del_i \in Results) =>
            LET r == reduction_results[del_i]
                last == log'[Len(log')]
                first == FirstFailing(fs, r.src, r.dst)
            IN /\ Len(log') = Len(log) + 1
               /\ SubSeq(log', 1, Len(log)) = log
               /\ last.file = r.src
               /\ last.tag \in DeleteTags
               /\ (r.success /\ r.src \in DOMAIN fs) =>
                     /\ first # "" =>
                           /\ last.tag = "DELETE SKIP"
                           /\ last.reason.text = first
                     /\ first = "" =>
                           /\ last.tag \in {"DELETE", "DELETE ERROR"}
                           /\ last.tag = "DELETE" <=> r.src \notin DOMAIN fs'
                     /\ last.tag = "DELETE SKIP" => fs' = fs]_vars
    /\ [](\A j \in Results :
             Cardinality(DeleteLinesOf(reduction_results[j].src))
                = IF j < del_i THEN 1 ELSE 0)

\* the loop is over: a derived file that is larger than its original, older
\* and unreadable was refused as not smaller, and another original, whose
\* derived file passed all five predicates, was removed
C25_Witness ==
    /\ pc = "export"
    /\ \E k \in 1..Len(log) :
          /\ log[k].tag = "DELETE SKIP"
          /\ log[k].reason.text = "reduced not smaller"
          /\ log[k].file \in DOMAIN fs
          /\ LET d == fs[DerivedPath(log[k].file)] IN
             /\ d.mtime < fs[log[k].file].mtime
             /\ ~UsableMetadata(d)
    /\ \E k \in 1..Len(log) :
          log[k].tag = "DELETE" /\ log[k].file \notin DOMAIN fs

\* C26: a cutoff exists exactly when minutes > 0; an evaluated file that
\* has no derived sibling is SKIP "outside time window" exactly when a
\* cutoff exists and its modification time is strictly before it, so never
\* when the two are equal and never when minutes <= 0; no other file has
\* that reason.
C26_StrictlyBeforeCutoff ==
    /\ cutoff.set <=> args.minutes > 0
    /\ cutoff.set => cutoff.t = Now - args.minutes * 60
    /\ Untouched =>
          \A i \in Rows :
             LET n == csv_rows[i].filename IN
             csv_rows[i].skip_reason.text = "outside time window"
                <=> /\ args.minutes > 0
                    /\ ~SiblingExists(fs, n)
                    /\ fs[n].mtime < cutoff.t

\* the scan used a window of one minute: a file modified 61 s ago, whose
\* name carries the marker, is outside the window, and a file modified
\* exactly 60 s ago was classified PASS
C26_Witness ==
    /\ Untouched
    /\ args.minutes = 1
    /\ \E i, j \in Rows :
          /\ csv_rows[i].skip_reason.text = "outside time window"
          /\ MarkerName(csv_rows[i].filename)
          /\ fs[csv_rows[i].filename].mtime = cutoff.t - 1
          /\ csv_rows[j].action = "PASS"
          /\ fs[csv_rows[j].filename].mtime = cutoff.t

\* the results that report success
Successes == { j \in Results : reduction_results[j].success }

\* C27: the number in the summary line "Reduced N files successfully" is
\* the number of reduction results whose success is true.
C27_SummaryCountsSuccesses ==
    \A k \in 1..Len(log) :
       log[k].reason.text = "Reduced files successfully" =>
          log[k].reason.pct.v = Cardinality(Successes)

\* C28: every step leaves each scanned file as it was, or removes it in
\* the deletion loop as the original of a successful result whose derived
\* file passes the five safe-delete predicates at that moment; a file with
\* a SKIP row is never a task, never given to the encoder and never
\* removed.
C28_NoDataLoss ==
    /\ [][\A p \in (listing \cap DOMAIN fs) :
             ~fs[p].dangling =>
                /\ p \in DOMAIN fs' => fs'[p] = fs[p]
                /\ p \notin DOMAIN fs' =>
                      /\ pc = "deleting"
                      /\ del_i \in Results
                      /\ reduction_results[del_i].src = p
                      /\ reduction_results[del_i].success
                      /\ FivePredicates(fs, p,
                                        reduction_results[del_i].dst)]_vars
    /\ [](\A i \in Rows :
             csv_rows[i].action = "SKIP" =>
                /\ csv_rows[i].filename \notin DOMAIN encoded
                /\ \A k \in Tasks :
                      futures[k].item.path # csv_rows[i].filename
                /\ csv_rows[i].filename \in DOMAIN fs)

\* C29: in a run that follows one whose encoder left a derived file for a
\* source, neither that source nor its derived file becomes a task or gets
\* a PASS row; without a time filter the kept original is SKIP
\* "_reduced version exists" and the derived file SKIP "already reduced".
C29_SecondRunNoOp ==
    history # <<>> =>
       \A src \in history[Len(history)] :
          /\ \A i \in 1..Len(reducible_files) :
                /\ reducible_files[i].path # src
                /\ reducible_files[i].path # DerivedPath(src)
          /\ \A i \in Rows :
                /\ csv_rows[i].filename \in {src, DerivedPath(src)} =>
                      csv_rows[i].action = "SKIP"
                /\ (csv_rows[i].filename = src /\ ~cutoff.set) =>
                      csv_rows[i].skip_reason.text
                         = "_reduced version exists"
                /\ (csv_rows[i].filename = DerivedPath(src)
                    /\ ~cutoff.set) =>
                      csv_rows[i].skip_reason.text = "already reduced"

\* the probe of this file gave a duration that is not negative
NonNegativeDuration(file) ==
    UsableMetadata(file) /\ DurationOf(file).num >= 0

\* C30: the PASS row of a file whose probed duration is not negative has
\* a size above 0, savings above 0 and at most the size, and a savings
\* percentage from 20 to 100; an evaluated file of size 0 with such a
\* duration and a bitrate above the target is SKIP "would not shrink"; and
\* the scan stops on an exception only at a file whose modification time
\* cannot be read or whose probed duration is negative, so never in the
\* division by a size of 0 that a non-negative duration would need.
C30_PassRanges ==
    /\ \A i \in Rows :
          LET row == csv_rows[i]
              file == fs[row.filename]
          IN (row.action = "PASS" /\ NonNegativeDuration(file)) =>
                /\ row.size_bytes.v > 0
                /\ row.size_bytes.v = file.size
                /\ row.savings_bytes.v > 0
                /\ row.savings_bytes.v <= row.size_bytes.v
                /\ row.savings_bytes.v * 100 >= 20 * row.size_bytes.v
                /\ row.savings_percent.v >= 2000
                /\ row.savings_percent.v <= 10000
    /\ \A n \in Evaluated :
          ( /\ Probed(fs, cutoff, n)
            /\ NonNegativeDuration(fs[n])
            /\ BitrateOf(fs[n]) > 128000
            /\ fs[n].size = 0 ) =>
             \E i \in RowsOf(n) :
                csv_rows[i].skip_reason.text = "would not shrink"
    /\ pc = "crashed" =>
          \E n \in todo :
             \/ cutoff.set /\ fs[n].dangling
             \/ UsableMetadata(fs[n]) /\ DurationOf(fs[n]).num < 0

\* the scan is over: a file of 40000 bytes whose probed duration is 0 has
\* a PASS row with savings of all its bytes, 100 percent
C30_Witness ==
    /\ pc = "confirm"
    /\ \E i \in Rows :
          /\ csv_rows[i].action = "PASS"
          /\ DurationOf(fs[csv_rows[i].filename]) = Zero
          /\ csv_rows[i].savings_bytes = csv_rows[i].size_bytes
          /\ csv_rows[i].savings_percent.v = 10000

====
